---- MODULE Spec2Model ----
(***************************************************************************)
(* Geometry::Vector<Dim, T> (source/Vector.h): a fixed-dimension numeric   *)
(* vector.  A vector value is a record [ty, d]: ty is the scalar type T    *)
(* ("int", "float" or "double", the scalar types of the header's aliases)  *)
(* and d the std::array<T, Dim> _data, as a sequence of length Dim (the    *)
(* C++ index i is the sequence index i + 1).                               *)
(*                                                                         *)
(* Scalars are exact binary fractions counted in units of 2^-FracBits.     *)
(* An int holds whole numbers only, a float keeps MantF significant bits   *)
(* (round to nearest, ties to even), a double keeps MantD.  FracBits is    *)
(* the smallest quantum of the modelled floating formats: a quotient or a  *)
(* square root is rounded to that grid.                                    *)
(***************************************************************************)
EXTENDS Integers, Sequences, FiniteSets

VARIABLES objs, op, args, res, n

vars == <<objs, op, args, res, n>>

-----------------------------------------------------------------------------
(* Bounds of the model *)

MaxDim == 3
FracBits == 2
MaxSteps == 2

(* Significant bits of float and double *)
MantF == 24
MantD == 53

RECURSIVE Pow2(_)
Pow2(k) == IF k = 0 THEN 1 ELSE 2 * Pow2(k - 1)

Scale == Pow2(FracBits)
Half == Scale \div 2
Big == Pow2(MantF) * Scale

Types == {"int", "float", "double"}
Dims == 1..MaxDim

-----------------------------------------------------------------------------
(* Scalar arithmetic of the built-in types *)

Abs(x) == IF x < 0 THEN -x ELSE x
Sgn(x) == IF x < 0 THEN -1 ELSE 1

RECURSIVE Bits(_)
Bits(m) == IF m = 0 THEN 0 ELSE 1 + Bits(m \div 2)

\* num / den rounded to the nearest integer, ties to even (den # 0)
RoundDiv(num, den) ==
    LET m == Abs(num)
        q == Abs(den)
        lo == m \div q
        rem == m % q
        up == (2 * rem > q) \/ (2 * rem = q /\ lo % 2 = 1)
    IN  Sgn(num) * Sgn(den) * (IF up THEN lo + 1 ELSE lo)

\* x rounded to p significant bits, ties to even
RoundTo(p, x) ==
    LET e == Bits(Abs(x)) - p
    IN  IF e <= 0 THEN x ELSE RoundDiv(x, Pow2(e)) * Pow2(e)

\* conversion to int discards the fractional part (towards zero)
Trunc(x) == Sgn(x) * ((Abs(x) \div Scale) * Scale)

\* the value x converted to (or rounded in) scalar type ty
Conv(ty, x) ==
    CASE ty = "int" -> Trunc(x)
      [] ty = "float" -> RoundTo(MantF, x)
      [] ty = "double" -> RoundTo(MantD, x)

\* usual arithmetic conversions: decltype(T{} op T2{})
Promote(t1, t2) ==
    IF "double" \in {t1, t2} THEN "double"
    ELSE IF "float" \in {t1, t2} THEN "float"
    ELSE "int"

\* x op y evaluated in the promoted type of operands typed t1 and t2
AddS(t1, x, t2, y) ==
    LET t == Promote(t1, t2) IN Conv(t, Conv(t, x) + Conv(t, y))
SubS(t1, x, t2, y) ==
    LET t == Promote(t1, t2) IN Conv(t, Conv(t, x) - Conv(t, y))
MulS(t1, x, t2, y) ==
    LET t == Promote(t1, t2)
    IN  Conv(t, RoundDiv(Conv(t, x) * Conv(t, y), Scale))
\* a division by zero gives no finite number (inf or nan)
NonFinite == -Pow2(30)
DivS(t1, x, t2, y) ==
    LET t == Promote(t1, t2)
    IN  IF Conv(t, y) = 0 \/ x = NonFinite THEN NonFinite
        ELSE Conv(t, RoundDiv(Conv(t, x) * Scale, Conv(t, y)))

RECURSIVE IsqrtFrom(_, _)
IsqrtFrom(m, r) == IF (r + 1) * (r + 1) > m THEN r ELSE IsqrtFrom(m, r + 1)

\* std::sqrt: the float overload for float, the double one for double and
\* for the integer types
SqrtType(ty) == IF ty = "float" THEN "float" ELSE "double"
SqrtS(ty, x) ==
    LET m == x * Scale
        r == IsqrtFrom(m, 0)
    IN  Conv(SqrtType(ty), IF m - r * r > r THEN r + 1 ELSE r)

-----------------------------------------------------------------------------
(* Vector<Dim, T> *)

Dim(v) == Len(v.d)

\* Vector(): every component 0
Zero(ty, dim) == [ty |-> ty, d |-> [i \in 1..dim |-> 0]]

\* mutant: the arguments are stored last to first
VConstructReversed(ty, as) ==
    [ty |-> ty, d |-> [i \in 1..Len(as) |-> as[Len(as) + 1 - i]]]

\* Vector(Args&&... args) : _data{args...}, one argument per component
VConstruct(ty, as) == [ty |-> ty, d |-> [i \in 1..Len(as) |-> as[i]]]

\* operator[](index) const
At(v, i) == v.d[i + 1]

\* operator[](index) = x
SetAt(v, i, x) == [v EXCEPT !.d[i + 1] = x]

\* mutant: every component adds other[0]
VAddFirst(a, b) ==
    [ty |-> a.ty,
     d |-> [i \in 1..Dim(a) |-> Conv(a.ty, AddS(a.ty, a.d[i], b.ty, b.d[1]))]]

\* operator+, operator-, operator*(const Vector<Dim2, T2>&): the result is a
\* Vector<Dim, T>, so each promoted value is converted to T on assignment
VAdd(a, b) ==
    [ty |-> a.ty,
     d |-> [i \in 1..Dim(a) |-> Conv(a.ty, AddS(a.ty, a.d[i], b.ty, b.d[i]))]]

VSub(a, b) ==
    [ty |-> a.ty,
     d |-> [i \in 1..Dim(a) |-> Conv(a.ty, SubS(a.ty, a.d[i], b.ty, b.d[i]))]]

VMul(a, b) ==
    [ty |-> a.ty,
     d |-> [i \in 1..Dim(a) |-> Conv(a.ty, MulS(a.ty, a.d[i], b.ty, b.d[i]))]]

\* operator*(T scalar): the argument, of type sty, is converted to the
\* parameter type T at the call
VScale(v, sty, s) ==
    LET scalar == Conv(v.ty, s)
        ScalarType == Promote(v.ty, v.ty)
    IN  [ty |-> v.ty,
         d |-> [i \in 1..Dim(v) |->
                  Conv(v.ty, Conv(ScalarType, MulS(v.ty, v.d[i], v.ty, scalar)))]]

\* friend operator*(T scalar, const Vector& v): return v * scalar
ScaleV(sty, s, v) == VScale(v, v.ty, Conv(v.ty, s))

\* operator==
VEq(a, b) == a.d = b.d

\* dot(other): r of the promoted type, r += _data[i] * other[i]
RECURSIVE DotLoop(_, _, _, _)
DotLoop(a, b, i, r) ==
    IF i < Dim(a)
    THEN LET t == Promote(a.ty, b.ty)
         IN  DotLoop(a, b, i + 1,
                     AddS(t, r, t, MulS(a.ty, At(a, i), b.ty, At(b, i))))
    ELSE r

VDot(a, b) == [ty |-> Promote(a.ty, b.ty), val |-> DotLoop(a, b, 0, 0)]

\* squared_mag(): T result = 0; result += _data[i] * _data[i]
RECURSIVE SqLoop(_, _, _)
SqLoop(v, i, result) ==
    IF i < Dim(v)
    THEN SqLoop(v, i + 1,
                Conv(v.ty, AddS(v.ty, result, v.ty,
                                MulS(v.ty, At(v, i), v.ty, At(v, i)))))
    ELSE result

SquaredMag(v) == SqLoop(v, 0, 0)

\* magnitude(): std::sqrt(squared_mag())
Magnitude(v) == SqrtS(v.ty, SquaredMag(v))

\* normalized(): a new Vector<Dim, T>, normalized[i] = _data[i] / vect_mag
VNormalized(v) ==
    LET vect_mag == Magnitude(v)
    IN  [ty |-> v.ty,
         d |-> [i \in 1..Dim(v) |->
                  Conv(v.ty, DivS(v.ty, v.d[i], SqrtType(v.ty), vect_mag))]]

\* mutant: the magnitude is taken again at every element
RECURSIVE NormLoopRecompute(_, _, _)
NormLoopRecompute(v, i, vect_mag) ==
    IF i < Dim(v)
    THEN NormLoopRecompute(SetAt(v, i, Conv(v.ty, DivS(v.ty, At(v, i),
                                                       SqrtType(v.ty), Magnitude(v)))),
                           i + 1, vect_mag)
    ELSE v

\* normalize(): for (auto &d : _data) d /= vect_mag
RECURSIVE NormLoop(_, _, _)
NormLoop(v, i, vect_mag) ==
    IF i < Dim(v)
    THEN NormLoop(SetAt(v, i, Conv(v.ty, DivS(v.ty, At(v, i),
                                              SqrtType(v.ty), vect_mag))),
                  i + 1, vect_mag)
    ELSE v

VNormalize(v) == NormLoop(v, 0, Magnitude(v))

\* mutant: the middle component with its terms exchanged
VCrossSwapped(a, b) ==
    LET t == Promote(a.ty, b.ty)
        m(i, j) == MulS(a.ty, At(a, i), b.ty, At(b, j))
    IN  [ty |-> t, d |-> << SubS(t, m(1, 2), t, m(2, 1)),
                            SubS(t, m(0, 2), t, m(2, 0)),
                            SubS(t, m(0, 1), t, m(1, 0)) >>]

\* cross(other): Vector<3, CrossType>
VCross(a, b) ==
    LET t == Promote(a.ty, b.ty)
        m(i, j) == MulS(a.ty, At(a, i), b.ty, At(b, j))
    IN  VConstruct(t, << SubS(t, m(1, 2), t, m(2, 1)),
                         SubS(t, m(2, 0), t, m(0, 2)),
                         SubS(t, m(0, 1), t, m(1, 0)) >>)

\* x(), xy(), xyz()
X(v) == [ty |-> v.ty, val |-> At(v, 0)]
XY(v) == VConstruct(v.ty, <<At(v, 0), At(v, 1)>>)
XYZ(v) == VConstruct(v.ty, <<At(v, 0), At(v, 1), At(v, 2)>>)

\* mutant: xy() enabled for Dim == 2 only
RequiresExact(m, dim) ==
    CASE m = "x" -> dim >= 1
      [] m = "xy" -> dim = 2
      [] m = "xyz" -> dim >= 3
      [] m = "cross" -> dim = 3
      [] OTHER -> TRUE

\* the requires-clauses of the gated members
Requires(m, dim) ==
    CASE m = "x" -> dim >= 1
      [] m = "xy" -> dim >= 2
      [] m = "xyz" -> dim >= 3
      [] m = "cross" -> dim = 3
      [] OTHER -> TRUE

\* the public members of the class
Members ==
    {"data", "x", "xy", "xyz", "dim", "dot", "squared_mag", "magnitude",
     "normalized", "normalize", "cross"}

\* operator<<: the characters written, as tokens, and the indices of _data
\* that were read
Tok(k, v) == [k |-> k, v |-> v]

\* os << v._data[i]: inside the array the element, outside it anything
Elem(v, i) == IF i \in 0..(Dim(v) - 1) THEN Tok("elem", v.d[i + 1]) ELSE Tok("?", 0)

\* mutant: the separator loop runs over every element
RECURSIVE RenderLoopAll(_, _, _)
RenderLoopAll(v, i, os) ==
    IF i < Dim(v)
    THEN RenderLoopAll(v, i + 1,
                       [out |-> os.out \o <<Elem(v, i), Tok(";", 0)>>,
                        reads |-> os.reads \cup {i}])
    ELSE os

RECURSIVE RenderLoop(_, _, _)
RenderLoop(v, i, os) ==
    IF i < Dim(v) - 1
    THEN RenderLoop(v, i + 1,
                    [out |-> os.out \o <<Elem(v, i), Tok(";", 0)>>,
                     reads |-> os.reads \cup {i}])
    ELSE os

Render(v) ==
    LET head == [out |-> <<Tok("Vector", Dim(v)), Tok("[", 0)>>, reads |-> {}]
        body == RenderLoop(v, 0, head)
        last == Dim(v) - 1
    IN  [out |-> body.out \o <<Elem(v, last), Tok("]", 0)>>,
         reads |-> body.reads \cup {last}]

-----------------------------------------------------------------------------
(* Objects: a store of named Vector objects, each owning its _data *)

Names == {"a", "b"}

\* Vector(const Vector& other) : _data(other._data)
StoreCopy(st, dst, src) ==
    [st EXCEPT ![dst] = [ty |-> st[src].ty, d |-> st[src].d]]

\* operator=(const Vector& other): if (this != &other) _data = other._data
StoreAssign(st, dst, src) ==
    IF dst # src THEN [st EXCEPT ![dst].d = st[src].d] ELSE st

\* mutant: the objects share one storage
StoreWriteShared(st, o, i, x) == [p \in DOMAIN st |-> SetAt(st[p], i, x)]

\* v[i] = x through the mutable operator[]
StoreWrite(st, o, i, x) == [st EXCEPT ![o] = SetAt(st[o], i, x)]

\* v.normalize()
StoreNormalize(st, o) == [st EXCEPT ![o] = VNormalize(st[o])]

-----------------------------------------------------------------------------
(* Inputs *)

Vals(ty) ==
    CASE ty = "int" -> {-Scale, 2 * Scale}
      [] ty = "float" -> {Half, Scale, Big}
      [] ty = "double" -> {-Half, 3 * Scale}

Vectors(dim, ty) == {[ty |-> ty, d |-> s] : s \in [1..dim -> Vals(ty)]}

Uniform(dim, ty) == {[ty |-> ty, d |-> [i \in 1..dim |-> x]] : x \in Vals(ty)}

\* list-initialisation of _data{args...} accepts no narrowing conversion
NonNarrowing(from, to) == from = to \/ (from = "float" /\ to = "double")

\* products are evaluated for magnitudes below Big only
Small(v) == \A i \in 1..Dim(v) : Abs(v.d[i]) < Big

Rejected == [ok |-> FALSE]

-----------------------------------------------------------------------------
(* Expressions over two vectors a and b of one dimension *)

Init ==
    /\ \E dim \in Dims : \E ta \in Types, tb \in Types :
         \E va \in Vectors(dim, ta), vb \in Vectors(dim, tb) :
            objs = [o \in Names |-> IF o = "a" THEN VConstruct(ta, va.d)
                                     ELSE VConstruct(tb, vb.d)]
    /\ op = "init"
    /\ args = [none |-> TRUE]
    /\ res = [ok |-> TRUE]
    /\ n = 0

\* one expression is evaluated over the constructed operands
Eval(name, in, out) ==
    /\ op = "init"
    /\ op' = name
    /\ args' = in
    /\ res' = out
    /\ UNCHANGED <<objs, n>>

Construct ==
    \E src \in Names, ty \in Types :
        /\ NonNarrowing(objs[src].ty, ty)
        /\ Eval("construct", [ty |-> ty, as |-> objs[src].d],
                [ok |-> TRUE, v |-> VConstruct(ty, objs[src].d)])

Add == Eval("add", [a |-> objs.a, b |-> objs.b],
            [ok |-> TRUE, v |-> VAdd(objs.a, objs.b)])

Sub == Eval("sub", [a |-> objs.a, b |-> objs.b],
            [ok |-> TRUE, v |-> VSub(objs.a, objs.b)])

Mul ==
    /\ Small(objs.a) /\ Small(objs.b)
    /\ Eval("mul", [a |-> objs.a, b |-> objs.b],
            [ok |-> TRUE, v |-> VMul(objs.a, objs.b)])

\* a + b, b + a, (a + b) + c and a + (b + c)
Add3 ==
    \E tc \in Types : \E c \in Uniform(Dim(objs.a), tc) :
        Eval("add3", [a |-> objs.a, b |-> objs.b, c |-> c],
             [ok |-> TRUE,
              ab |-> VAdd(objs.a, objs.b),
              ba |-> VAdd(objs.b, objs.a),
              l |-> VAdd(VAdd(objs.a, objs.b), c),
              r |-> VAdd(objs.a, VAdd(objs.b, c))])

\* v * s and s * v
ScalarMul ==
    \E sty \in Types : \E s \in Vals(sty) :
        /\ Small(objs.a) /\ s < Big
        /\ Eval("scale", [v |-> objs.a, sty |-> sty, s |-> s],
                [ok |-> TRUE,
                 vs |-> VScale(objs.a, sty, s),
                 sv |-> ScaleV(sty, s, objs.a)])

Dot ==
    /\ Small(objs.a) /\ Small(objs.b)
    /\ Eval("dot", [a |-> objs.a, b |-> objs.b],
            [ok |-> TRUE, s |-> VDot(objs.a, objs.b)])

Cross ==
    /\ Small(objs.a) /\ Small(objs.b)
    /\ Eval("cross", [a |-> objs.a, b |-> objs.b],
            IF "cross" \in Members /\ Requires("cross", Dim(objs.a))
            THEN [ok |-> TRUE, v |-> VCross(objs.a, objs.b)]
            ELSE Rejected)

\* x(), xy() and xyz(), each behind its requires-clause
Proj ==
    \E m \in {"x", "xy", "xyz"} :
        Eval(m, [v |-> objs.a],
             IF m \in Members /\ Requires(m, Dim(objs.a))
             THEN [ok |-> TRUE,
                   v |-> CASE m = "x" -> X(objs.a)
                           [] m = "xy" -> XY(objs.a)
                           [] m = "xyz" -> XYZ(objs.a)]
             ELSE Rejected)

\* a.project(b), as main() calls it: the class declares no such member
Project ==
    /\ "project" \notin Members
    /\ Eval("project", [a |-> objs.a, b |-> objs.b], Rejected)

Stream == Eval("stream", [v |-> objs.a], [ok |-> TRUE, os |-> Render(objs.a)])

Next ==
    \/ Construct
    \/ Add
    \/ Sub
    \/ Mul
    \/ Add3
    \/ ScalarMul
    \/ Dot
    \/ Cross
    \/ Proj
    \/ Project
    \/ Stream

Spec == Init /\ [][Next]_vars

-----------------------------------------------------------------------------
(* Properties of the expressions *)

IsBinary == op \in {"add", "sub", "mul"}

Promoted(name, t1, x, t2, y) ==
    CASE name = "add" -> AddS(t1, x, t2, y)
      [] name = "sub" -> SubS(t1, x, t2, y)
      [] name = "mul" -> MulS(t1, x, t2, y)

\* C1: a + b, a - b and the component-wise a * b have the promoted scalar
\* type of the two operands, and component i is a[i] op b[i] evaluated in
\* that type, with no conversion to the left operand's scalar type.
C1_PromotedComponents ==
    IsBinary =>
        /\ Dim(res.v) = Dim(args.a)
        /\ res.v.ty = Promote(args.a.ty, args.b.ty)
        /\ \A i \in 1..Dim(args.a) :
              res.v.d[i] = Promoted(op, args.a.ty, args.a.d[i],
                                    args.b.ty, args.b.d[i])

\* x is a value of scalar type ty
ExactIn(ty, x) == Conv(ty, x) = x

\* the addition a + b neither rounds nor truncates: operands and sum are
\* values of the type the sum is computed in and of the type that holds it
ExactAdd(a, b) ==
    \A i \in 1..Dim(a) :
        LET t == Promote(a.ty, b.ty)
        IN  /\ ExactIn(t, a.d[i]) /\ ExactIn(t, b.d[i])
            /\ ExactIn(t, a.d[i] + b.d[i])
            /\ ExactIn(a.ty, a.d[i] + b.d[i])

Sum(a, b) == [ty |-> a.ty, d |-> [i \in 1..Dim(a) |-> a.d[i] + b.d[i]]]

AllExact(a, b, c) ==
    /\ ExactAdd(a, b) /\ ExactAdd(Sum(a, b), c)
    /\ ExactAdd(b, c) /\ ExactAdd(a, Sum(b, c))

IntVec(s) == [ty |-> "int", d |-> [i \in 1..Len(s) |-> s[i] * Scale]]

\* C2, as stated, for operands of one scalar type: a + b == b + a and
\* (a + b) + c == a + (b + c) for all a, b, c.
C2_Associative ==
    (op = "add3" /\ args.a.ty = args.b.ty /\ args.b.ty = args.c.ty) =>
        /\ res.ab = res.ba
        /\ res.l = res.r

\* C2, amended: a + b == b + a for a and b of one scalar type;
\* (a + b) + c == a + (b + c) whenever none of the additions involved rounds
\* or truncates; and (1,2,3) + (4,5,6) = (5,7,9).
C2_AssociativeWhenExact ==
    /\ VAdd(IntVec(<<1, 2, 3>>), IntVec(<<4, 5, 6>>)) = IntVec(<<5, 7, 9>>)
    /\ op = "add3" =>
        /\ args.a.ty = args.b.ty => res.ab = res.ba
        /\ AllExact(args.a, args.b, args.c) => res.l.d = res.r.d

C2_Witness ==
    /\ op = "add3"
    /\ args.a.ty = "float" /\ args.b.ty = "float" /\ args.c.ty = "float"
    /\ args.a.d # args.b.d
    /\ Dim(args.a) >= 2
    /\ AllExact(args.a, args.b, args.c)
    /\ res.l = res.r /\ res.ab = res.ba

\* C3: element i of Vector(a0, ..., a_{Dim-1}) is a_i, for every i in
\* [0, Dim); (10,20,30) reads back 10, 20, 30 and (1,2,3,4) reads 1, 2, 3, 4.
C3_ConstructThenRead ==
    /\ LET v == VConstruct("int", IntVec(<<10, 20, 30>>).d)
       IN  At(v, 0) = 10 * Scale /\ At(v, 1) = 20 * Scale /\ At(v, 2) = 30 * Scale
    /\ LET w == VConstruct("int", IntVec(<<1, 2, 3, 4>>).d)
       IN  \A i \in 0..3 : At(w, i) = (i + 1) * Scale
    /\ op = "construct" =>
        /\ res.v.ty = args.ty
        /\ Dim(res.v) = Len(args.as)
        /\ \A i \in 0..(Len(args.as) - 1) : At(res.v, i) = args.as[i + 1]

C3_Witness ==
    /\ op = "construct"
    /\ Len(args.as) >= 2
    /\ args.as[1] # args.as[2]
    /\ At(res.v, 0) = args.as[1] /\ At(res.v, 1) = args.as[2]

\* the product of two scalars as a number, when it lies on the grid
Times(x, y) == (x * y) \div Scale

\* C4: cross(a, b) = (a1*b2 - a2*b1, a2*b0 - a0*b2, a0*b1 - a1*b0) in the
\* promoted scalar type; cross((1,0,0), (0,1,0)) = (0,0,1); and cross(a, b)
\* is the component-wise negation of cross(b, a).
C4_CrossFormula ==
    /\ VCross(IntVec(<<1, 0, 0>>), IntVec(<<0, 1, 0>>)) = IntVec(<<0, 0, 1>>)
    /\ (op = "cross" /\ Dim(args.a) = 3) =>
        LET a == args.a.d
            b == args.b.d
        IN  /\ res.ok
            /\ res.v.ty = Promote(args.a.ty, args.b.ty)
            /\ res.v.d = << Times(a[2], b[3]) - Times(a[3], b[2]),
                            Times(a[3], b[1]) - Times(a[1], b[3]),
                            Times(a[1], b[2]) - Times(a[2], b[1]) >>
            /\ \A i \in 1..3 : \A j \in 1..3 : (a[i] * b[j]) % Scale = 0
            /\ \A i \in 1..3 : VCross(args.b, args.a).d[i] = -res.v.d[i]

C4_Witness ==
    /\ op = "cross" /\ res.ok
    /\ args.a.ty = "int" /\ args.b.ty = "float"
    /\ \A i \in 1..3 : res.v.d[i] # 0
    /\ VCross(args.b, args.a).d[1] = -res.v.d[1]

\* C6: a.project(b) exists and equals (dot(a,b) / dot(b,b)) * b component by
\* component whenever b is not the zero vector.
C6_ProjectFormula ==
    (op = "project" /\ \E i \in 1..Dim(args.b) : args.b.d[i] # 0) =>
        /\ res.ok
        /\ LET ab == VDot(args.a, args.b)
               bb == VDot(args.b, args.b)
               k == DivS(ab.ty, ab.val, bb.ty, bb.val)
           IN  \A i \in 1..Dim(args.b) :
                  res.v.d[i] = MulS(Promote(ab.ty, bb.ty), k, args.b.ty, args.b.d[i])

\* C7: v * s and s * v are equal, leave v unchanged, and have component i
\* equal to v[i] * s in the promoted type of the vector's scalar type and the
\* scalar's type; the scalar is not narrowed to the vector's scalar type.
C7_ScalarPromoted ==
    op = "scale" =>
        /\ res.vs = res.sv
        /\ objs.a = args.v
        /\ res.vs.ty = Promote(args.v.ty, args.sty)
        /\ \A i \in 1..Dim(args.v) :
              res.vs.d[i] = MulS(args.v.ty, args.v.d[i], args.sty, args.s)

\* C8: a vector of Dim >= 1 renders as Vector<Dim>[e0;e1;...;e_{Dim-1}]:
\* the elements in index order, Dim - 1 separators, none trailing, and only
\* indices in [0, Dim) are read; (42) renders as Vector1[42] and (1,2,3) as
\* Vector3[1;2;3].
C8_RenderFormat ==
    /\ Render(IntVec(<<42>>)).out =
          <<Tok("Vector", 1), Tok("[", 0), Tok("elem", 42 * Scale), Tok("]", 0)>>
    /\ Render(IntVec(<<1, 2, 3>>)).out =
          <<Tok("Vector", 3), Tok("[", 0), Tok("elem", Scale), Tok(";", 0),
            Tok("elem", 2 * Scale), Tok(";", 0), Tok("elem", 3 * Scale),
            Tok("]", 0)>>
    /\ op = "stream" =>
        LET out == res.os.out
            dim == Dim(args.v)
        IN  /\ Len(out) = 2 * dim + 2
            /\ out[1] = Tok("Vector", dim) /\ out[2] = Tok("[", 0)
            /\ \A i \in 0..(dim - 1) : out[3 + 2 * i] = Tok("elem", args.v.d[i + 1])
            /\ \A i \in 0..(dim - 2) : out[4 + 2 * i] = Tok(";", 0)
            /\ out[2 * dim + 2] = Tok("]", 0)
            /\ Cardinality({j \in 1..Len(out) : out[j].k = ";"}) = dim - 1
            /\ res.os.reads = 0..(dim - 1)

C8_Witness ==
    /\ op = "stream"
    /\ Dim(args.v) = 1
    /\ res.os.out = <<Tok("Vector", 1), Tok("[", 0),
                      Tok("elem", args.v.d[1]), Tok("]", 0)>>
    /\ res.os.reads = {0}

Arity(m) == CASE m = "x" -> 1 [] m = "xy" -> 2 [] m = "xyz" -> 3

\* C9: x, xy and xyz are available exactly when Dim >= 1, 2 and 3; when
\* available they return elements 0..k-1 of the receiver in order, in the
\* receiver's scalar type, and leave the receiver unchanged.
C9_PrefixProjections ==
    op \in {"x", "xy", "xyz"} =>
        LET k == Arity(op)
        IN  /\ res.ok <=> Dim(args.v) >= k
            /\ res.ok =>
                /\ res.v.ty = args.v.ty
                /\ objs.a = args.v
                /\ IF k = 1 THEN res.v.val = args.v.d[1]
                   ELSE res.v.d = [i \in 1..k |-> args.v.d[i]]

C9_Witness ==
    /\ op = "xy"
    /\ Dim(args.v) = 3
    /\ res.ok
    /\ res.v.d = <<args.v.d[1], args.v.d[2]>>
    /\ args.v.d[1] # args.v.d[2]

-----------------------------------------------------------------------------
(* Object lifetime: Vector a(args...); Vector b(a); then up to MaxSteps     *)
(* member calls on a and b                                                 *)

InitObj ==
    /\ \E dim \in Dims : \E ty \in Types : \E va \in Vectors(dim, ty) :
         objs = StoreCopy([o \in Names |-> VConstruct(ty, va.d)], "b", "a")
    /\ op = "init"
    /\ args = [none |-> TRUE]
    /\ res = [ok |-> TRUE]
    /\ n = 0

\* a member call on object tgt: before is the store when it was made
Call(name, tgt, in, st, out) ==
    /\ n < MaxSteps
    /\ n' = n + 1
    /\ op' = name
    /\ args' = [tgt |-> tgt, in |-> in, before |-> objs]
    /\ objs' = st
    /\ res' = out

Other(o) == CHOOSE p \in Names : p # o

CopyConstruct ==
    \E dst \in Names :
        Call("copy_construct", dst, Other(dst),
             StoreCopy(objs, dst, Other(dst)), [ok |-> TRUE])

CopyAssign ==
    \E dst \in Names, src \in Names :
        /\ objs[dst].ty = objs[src].ty
        /\ Call("assign", dst, src, StoreAssign(objs, dst, src), [ok |-> TRUE])

IndexWrite ==
    \E o \in Names : \E i \in 0..(Dim(objs[o]) - 1) : \E x \in Vals(objs[o].ty) :
        Call("write", o, <<i, x>>, StoreWrite(objs, o, i, x), [ok |-> TRUE])

\* normalization is followed for a receiver of non-zero magnitude
Normalizable(v) == Small(v) /\ Magnitude(v) # 0

Normalize ==
    \E o \in Names :
        /\ Normalizable(objs[o])
        /\ Call("normalize", o, o, StoreNormalize(objs, o), [ok |-> TRUE])

Normalized ==
    \E o \in Names :
        /\ Normalizable(objs[o])
        /\ Call("normalized", o, o, objs, [ok |-> TRUE, v |-> VNormalized(objs[o])])

NextObj ==
    \/ CopyConstruct
    \/ CopyAssign
    \/ IndexWrite
    \/ Normalize
    \/ Normalized

SpecObj == InitObj /\ [][NextObj]_vars

-----------------------------------------------------------------------------
(* Properties of the objects *)

\* C5: for a receiver of non-zero magnitude, normalized() leaves every
\* element of the receiver unchanged, and normalize() leaves the receiver
\* equal, element by element, to what normalized() returns on the value the
\* receiver had before.
C5_NormalizeMatchesNormalized ==
    /\ op = "normalized" =>
          /\ objs = args.before
          /\ res.v.ty = args.before[args.tgt].ty
    /\ op = "normalize" =>
          /\ objs[args.tgt].ty = args.before[args.tgt].ty
          /\ \A i \in 0..(Dim(objs[args.tgt]) - 1) :
                At(objs[args.tgt], i) = At(VNormalized(args.before[args.tgt]), i)

C5_Witness ==
    /\ op = "normalize"
    /\ objs[args.tgt].ty = "float"
    /\ objs[args.tgt] # args.before[args.tgt]
    /\ Dim(objs[args.tgt]) >= 2
    /\ objs[args.tgt].d[1] # objs[args.tgt].d[2]
    /\ objs[args.tgt] = VNormalized(args.before[args.tgt])

\* C10: after a copy construction or copy assignment the destination holds
\* the source's elements; a write v[i] = x, a normalize() or an assignment
\* to one object leaves every element of the other unchanged; and assigning
\* an object to itself leaves its elements unchanged.
C10_CopiesIndependent ==
    /\ op \in {"copy_construct", "assign"} =>
          /\ objs[args.tgt].d = args.before[args.in].d
          /\ objs[args.in] = args.before[args.in]
    /\ op \in {"copy_construct", "assign", "write", "normalize"} =>
          objs[Other(args.tgt)] = args.before[Other(args.tgt)]
    /\ (op = "assign" /\ args.in = args.tgt) => objs = args.before
    /\ op = "write" => At(objs[args.tgt], args.in[1]) = args.in[2]

C10_Witness ==
    /\ op = "write"
    /\ n = 2
    /\ objs["a"] # objs["b"]
    /\ objs[args.tgt] # args.before[args.tgt]
    /\ objs[Other(args.tgt)] = args.before[Other(args.tgt)]

====
